---- MODULE Spec2Model ----
(***************************************************************************)
(* A model of the inspektio browser extension: the storage service         *)
(* (src/src/services/storage.service.ts, lines 1-147), the cookie          *)
(* dashboard's filter-and-sort effect (same file, lines 149-320), the      *)
(* persistent settings store (src/src/content/index.ts) and the cookie     *)
(* adapter (src/src/adapters/cookies.ts).                                  *)
(*                                                                         *)
(* The components share no state, so each has a specification of its own   *)
(* over its own variables; the other components' variables stay at their   *)
(* initial values under it.                                                *)
(***************************************************************************)
EXTENDS Integers, Sequences, FiniteSets

VARIABLES
    \* ---- storage service ----
    page,        \* the active page's storages: storage type -> (key -> value)
    activeTab,   \* whether tabs.query yields a tab with an id
    req,         \* the service call in flight (op = "none" when idle)
    res,         \* how the last settled service call ended
    rt,          \* the export / clear / import round trip in progress
    \* ---- persistent settings store ----
    mem,         \* the value of the in-memory writable store
    remote,      \* chrome.storage.sync's entry for the key: [has, v]
    writes,      \* this context's storage.sync.set calls not yet applied
    inbox,       \* change notifications on their way to this context's listener
    reading,     \* the initial storage.sync.get: "pending", "served" or "done"
    readResult,  \* what the initial get read, once served
    issued,      \* how many writes were made: [local, external]
    seenNewer,   \* a notification made after the get was served has been delivered
    lateRead,    \* the get's result was delivered after such a notification
    \* ---- cookie dashboard ----
    cookies,          \* the full cookie list
    filteredCookies,  \* the filtered and sorted list shown
    loading,          \* fetchCookies is in flight
    searchTerm,
    selectedDomain,
    showExpiredOnly,
    sortField,
    sortDirection,
    now,              \* Date.now() / 1000 as read by the latest run of the effect
    \* ---- cookie adapter ----
    jar,         \* the browser's cookie store
    clearing,    \* the clear() call in flight
    lookup       \* the latest call, when it was a get() or has(), and what it returned

storageVars == <<page, activeTab, req, res, rt>>
storeVars == <<mem, remote, writes, inbox, reading, readResult, issued, seenNewer, lateRead>>
dashVars == <<cookies, filteredCookies, loading, searchTerm, selectedDomain,
              showExpiredOnly, sortField, sortDirection, now>>
adapterVars == <<jar, clearing, lookup>>
vars == <<storageVars, storeVars, dashVars, adapterVars>>

notStorage == <<storeVars, dashVars, adapterVars>>
notStore == <<storageVars, dashVars, adapterVars>>
notDash == <<storageVars, storeVars, adapterVars>>
notAdapter == <<storageVars, storeVars, dashVars>>

\* A component that a specification does not run: its variables hold no
\* value of the program and never change.
StorageOff == page = <<>> /\ activeTab = FALSE /\ req = <<>> /\ res = <<>> /\ rt = <<>>
StoreOff ==
    /\ mem = 0 /\ remote = <<>> /\ writes = <<>> /\ inbox = <<>> /\ reading = "off"
    /\ readResult = <<>> /\ issued = <<>> /\ seenNewer = FALSE /\ lateRead = FALSE
DashOff ==
    /\ cookies = <<>> /\ filteredCookies = <<>> /\ loading = FALSE
    /\ searchTerm = <<>> /\ selectedDomain = <<>> /\ showExpiredOnly = FALSE
    /\ sortField = "off" /\ sortDirection = "off" /\ now = 0
AdapterOff == jar = {} /\ clearing = <<>> /\ lookup = <<>>

(***************************************************************************)
(* Strings, keys and the page's Storage objects                            *)
(***************************************************************************)

\* How many of the keys of KeyUniverse the page's storages may hold.
NumKeys == 2

\* The keys, in the order localeCompare gives them (punctuation sorts
\* before letters).
KeyUniverse == <<"__proto__", "a", "b", "c", "d">>

Keys == {KeyUniverse[i] : i \in 1..NumKeys}

KeyRank(k) == CHOOSE i \in 1..Len(KeyUniverse) : KeyUniverse[i] = k

\* Storage values are strings; the empty string is one of them.
StorageValues == {"", "1"}

StorageTypes == {"local", "session"}

\* A Storage object: a finite map from keys to string values.
Storages == UNION {[D -> StorageValues] : D \in SUBSET Keys}

EmptyStorage == [k \in {} |-> ""]

\* storage.setItem(k, v)
SetItem(s, k, v) == [x \in (DOMAIN s) \cup {k} |-> IF x = k THEN v ELSE s[x]]

\* storage.removeItem(k)
RemoveItem(s, k) == [x \in (DOMAIN s) \ {k} |-> s[x]]

\* entries.sort((a, b) => a.key.localeCompare(b.key)) over distinct keys
RECURSIVE SortedKeys(_)
SortedKeys(D) ==
    IF D = {} THEN <<>>
    ELSE LET m == CHOOSE k \in D : \A o \in D : KeyRank(k) <= KeyRank(o)
         IN  <<m>> \o SortedKeys(D \ {m})

\* The function getAllEntries injects: one entry per key, the value read
\* with  getItem(key) || "" , sorted by key.
InjectedRead(s) ==
    LET ks == SortedKeys(DOMAIN s)
    IN  [i \in 1..Len(ks) |->
            [key |-> ks[i], value |-> IF s[ks[i]] = "" THEN "" ELSE s[ks[i]]]]

(***************************************************************************)
(* JavaScript objects and JSON text                                        *)
(*                                                                         *)
(* An object is the sequence of its own enumerable properties in           *)
(* enumeration order, each [key, val]; a JSON value val is [t, s] with t   *)
(* one of "str", "num", "null" and s its text.  JSON text is the sequence  *)
(* of its tokens [k, v] (white space carries no token).                    *)
(***************************************************************************)

Str(s) == [t |-> "str", s |-> s]
Num(s) == [t |-> "num", s |-> s]
Null == [t |-> "null", s |-> "null"]

\* String(value), for the values JSON.parse yields here
StringOf(val) == val.s

HasKey(obj, k) == \E i \in 1..Len(obj) : obj[i].key = k

\* CreateDataProperty: JSON.parse defines each member as an own property,
\* whatever its name; a repeated name keeps its place and takes the new value.
ObjDefine(obj, k, val) ==
    IF HasKey(obj, k)
    THEN [i \in 1..Len(obj) |-> IF obj[i].key = k THEN [key |-> k, val |-> val] ELSE obj[i]]
    ELSE Append(obj, [key |-> k, val |-> val])

\* acc[k] = v on an object created by {} : the name "__proto__" reaches the
\* accessor of Object.prototype, whose setter ignores a value that is
\* neither an object nor null, so no own property is created.
ObjAssign(obj, k, val) ==
    IF k = "__proto__" THEN obj ELSE ObjDefine(obj, k, val)

\* entries.reduce((acc, entry) => { acc[entry.key] = entry.value; ... }, {})
RECURSIVE ReduceEntries(_, _)
ReduceEntries(entries, acc) ==
    IF entries = <<>> THEN acc
    ELSE ReduceEntries(Tail(entries),
                       ObjAssign(acc, Head(entries).key, Str(Head(entries).value)))

Punct(c) == [k |-> "punct", v |-> c]
StrTok(s) == [k |-> "str", v |-> s]
NumTok(s) == [k |-> "num", v |-> s]
NullTok == [k |-> "lit", v |-> "null"]
WordTok(s) == [k |-> "word", v |-> s]

TokenOf(val) ==
    IF val.t = "str" THEN StrTok(val.s)
    ELSE IF val.t = "num" THEN NumTok(val.s)
    ELSE NullTok

\* JSON.stringify(obj, null, 2) of an object of scalar members
RECURSIVE StringifyMembers(_)
StringifyMembers(obj) ==
    IF obj = <<>> THEN <<>>
    ELSE <<StrTok(Head(obj).key), Punct(":"), TokenOf(Head(obj).val)>>
         \o (IF Tail(obj) = <<>> THEN <<>> ELSE <<Punct(",")>>)
         \o StringifyMembers(Tail(obj))

Stringify(obj) == <<Punct("{")>> \o StringifyMembers(obj) \o <<Punct("}")>>

IsScalarTok(tok) == tok.k \in {"str", "num"} \/ tok = NullTok

ValueOf(tok) ==
    IF tok.k = "str" THEN Str(tok.v)
    ELSE IF tok.k = "num" THEN Num(tok.v)
    ELSE Null

\* The members between the braces: name : scalar, separated by commas.
RECURSIVE ParseMembers(_, _)
ParseMembers(toks, acc) ==
    IF Len(toks) < 3 THEN [ok |-> FALSE, obj |-> <<>>]
    ELSE IF ~(toks[1].k = "str" /\ toks[2] = Punct(":") /\ IsScalarTok(toks[3]))
    THEN [ok |-> FALSE, obj |-> <<>>]
    ELSE LET next == ObjDefine(acc, toks[1].v, ValueOf(toks[3]))
         IN  IF Len(toks) = 3 THEN [ok |-> TRUE, obj |-> next]
             ELSE IF toks[4] = Punct(",")
             THEN ParseMembers(SubSeq(toks, 5, Len(toks)), next)
             ELSE [ok |-> FALSE, obj |-> <<>>]

\* JSON.parse(text): ok is FALSE where it throws a SyntaxError; otherwise t
\* is the kind of the value ("obj" or a scalar's), obj an object's members
\* and s a scalar's text.
ParseJSON(toks) ==
    LET bad == [ok |-> FALSE, t |-> "none", s |-> "", obj |-> <<>>]
    IN  IF Len(toks) = 1 /\ IsScalarTok(toks[1])
        THEN [ok |-> TRUE, t |-> ValueOf(toks[1]).t, s |-> toks[1].v, obj |-> <<>>]
        ELSE IF Len(toks) >= 2 /\ toks[1] = Punct("{") /\ toks[Len(toks)] = Punct("}")
        THEN IF Len(toks) = 2
             THEN [ok |-> TRUE, t |-> "obj", s |-> "", obj |-> <<>>]
             ELSE LET m == ParseMembers(SubSeq(toks, 2, Len(toks) - 1), <<>>)
                  IN  IF m.ok THEN [ok |-> TRUE, t |-> "obj", s |-> "", obj |-> m.obj]
                      ELSE bad
        ELSE bad

\* Object.entries(data): threw is TRUE where it throws a TypeError (null);
\* a number has no own enumerable properties; a string has one per
\* character (the modelled strings have at most one).
ObjectEntries(data) ==
    IF data.t = "null" THEN [threw |-> TRUE, entries |-> <<>>]
    ELSE IF data.t = "obj" THEN [threw |-> FALSE, entries |-> data.obj]
    ELSE IF data.t = "str" /\ data.s # ""
    THEN [threw |-> FALSE, entries |-> <<[key |-> "0", val |-> Str(data.s)]>>]
    ELSE [threw |-> FALSE, entries |-> <<>>]

(***************************************************************************)
(* The storage service's operations.  Each takes the page's storages pg,   *)
(* what tabs.query yields (tab) and whether chrome.scripting.executeScript *)
(* runs the injected function (injectOk: when it does not, the callback is *)
(* still invoked, with no results and runtime.lastError set), and gives    *)
(* how the returned promise settles, the executeScript calls issued        *)
(* (injected), how many of them failed, and the page's storages after.     *)
(***************************************************************************)

NoActiveTab == "No active tab found"
InvalidFormat == "Invalid JSON format"

Settled(outcome, error, value, injected, failed, pg) ==
    [outcome |-> outcome, error |-> error, value |-> value,
     injected |-> injected, failed |-> failed, page |-> pg]

GetAllEntries_RejectsWithoutTab(pg, type, tab, injectOk) ==
    IF ~tab THEN Settled("rejected", NoActiveTab, <<>>, 0, 0, pg)
    ELSE IF ~injectOk THEN Settled("resolved", "", <<>>, 1, 1, pg)
    ELSE Settled("resolved", "", InjectedRead(pg[type]), 1, 0, pg)

GetAllEntries(pg, type, tab, injectOk) ==
    IF ~tab THEN Settled("resolved", "", <<>>, 0, 0, pg)
    ELSE IF ~injectOk THEN Settled("resolved", "", <<>>, 1, 1, pg)
    ELSE Settled("resolved", "", InjectedRead(pg[type]), 1, 0, pg)

SetEntry(pg, type, key, value, tab, injectOk) ==
    IF ~tab THEN Settled("rejected", NoActiveTab, <<>>, 0, 0, pg)
    ELSE IF ~injectOk THEN Settled("resolved", "", <<>>, 1, 1, pg)
    ELSE Settled("resolved", "", <<>>, 1, 0,
                 [pg EXCEPT ![type] = SetItem(@, key, value)])

DeleteEntry(pg, type, key, tab, injectOk) ==
    IF ~tab THEN Settled("rejected", NoActiveTab, <<>>, 0, 0, pg)
    ELSE IF ~injectOk THEN Settled("resolved", "", <<>>, 1, 1, pg)
    ELSE Settled("resolved", "", <<>>, 1, 0,
                 [pg EXCEPT ![type] = RemoveItem(@, key)])

ClearAll(pg, type, tab, injectOk) ==
    IF ~tab THEN Settled("rejected", NoActiveTab, <<>>, 0, 0, pg)
    ELSE IF ~injectOk THEN Settled("resolved", "", <<>>, 1, 1, pg)
    ELSE Settled("resolved", "", <<>>, 1, 0, [pg EXCEPT ![type] = EmptyStorage])

\* exportEntries: the entries read, folded into one object, as JSON text.
ExportEntries(pg, type, tab, injectOk) ==
    LET got == GetAllEntries(pg, type, tab, injectOk)
    IN  [got EXCEPT !.value = Stringify(ReduceEntries(got.value, <<>>))]

ImportBegin_SwallowsParseError(text) ==
    LET data == ParseJSON(text)
    IN  IF ~data.ok THEN [threw |-> FALSE, entries |-> <<>>]
        ELSE ObjectEntries(data)

\* importEntries up to its first await: JSON.parse and Object.entries run
\* inside the try block; threw is TRUE where either throws.
ImportBegin(text) ==
    LET data == ParseJSON(text)
    IN  IF ~data.ok THEN [threw |-> TRUE, entries |-> <<>>]
        ELSE ObjectEntries(data)

\* One turn of importEntries' loop: await this.setEntry(type, key, String(value))
ImportWriteEntry(pg, type, entry, tab, injectOk) ==
    SetEntry(pg, type, entry.key, StringOf(entry.val), tab, injectOk)

\* The catch block of importEntries: whatever was thrown inside the try
\* block, the error thrown to the caller is "Invalid JSON format".
ImportCatch(error) == InvalidFormat

(***************************************************************************)
(* The texts handed to importEntries                                       *)
(***************************************************************************)

\* {not json
NotJsonText == <<Punct("{"), WordTok("not"), WordTok("json")>>

\* {"a": "1", "__proto__": 1}
TwoEntryText ==
    <<Punct("{"), StrTok("a"), Punct(":"), StrTok("1"), Punct(","),
      StrTok("__proto__"), Punct(":"), NumTok("1"), Punct("}")>>

ImportTexts ==
    { NotJsonText,
      <<>>,
      <<Punct("{"), StrTok("a"), Punct(":"), StrTok("1"), Punct(","), Punct("}")>>,
      <<Punct("{"), Punct("}")>>,
      <<Punct("{"), StrTok("a"), Punct(":"), StrTok(""), Punct("}")>>,
      TwoEntryText,
      <<Punct("{"), StrTok("a"), Punct(":"), StrTok("1"), Punct(","),
        StrTok("a"), Punct(":"), NullTok, Punct("}")>>,
      <<NullTok>>,
      <<NumTok("1")>> }

(***************************************************************************)
(* The storage service as a state machine.  A call is invoked (req) and    *)
(* settles later, when the tabs.query callback runs; the active tab may    *)
(* come and go in between.  One call is in flight at a time.               *)
(***************************************************************************)

NoReq ==
    [op |-> "none", type |-> "local", key |-> "", value |-> "", text |-> <<>>,
     todo |-> <<>>, calls |-> 0, injected |-> 0, failed |-> 0, firstFail |-> 0]

\* res: op and text are the call's; outcome, error and value how its promise
\* settled; calls the setEntry calls an import made; injected the
\* executeScript calls issued; failed how many of those did not run; and
\* firstFail the number of the first setEntry call of an import whose write
\* did not take effect (0 when there is none).
NoRes ==
    [op |-> "none", type |-> "local", text |-> <<>>, outcome |-> "none",
     error |-> "", value |-> <<>>, calls |-> 0, injected |-> 0, failed |-> 0,
     firstFail |-> 0]

NoRoundTrip == [phase |-> "off", type |-> "local", S |-> EmptyStorage,
                text |-> <<>>, todo |-> <<>>]

ResultOf(r, s) ==
    [op |-> r.op, type |-> r.type, text |-> r.text, outcome |-> s.outcome,
     error |-> s.error, value |-> s.value, calls |-> 0, injected |-> s.injected,
     failed |-> s.failed, firstFail |-> 0]

WriteOps == {"setEntry", "deleteEntry", "clearAll"}

InitStorage ==
    /\ page \in [StorageTypes -> Storages]
    /\ activeTab \in BOOLEAN
    /\ req = NoReq
    /\ res = NoRes
    /\ rt = NoRoundTrip
    /\ StoreOff /\ DashOff /\ AdapterOff

\* The user switches to a window without a tab, or back.
TabChange ==
    /\ activeTab' = ~activeTab
    /\ UNCHANGED <<page, req, res, rt, notStorage>>

InvokeGetAllEntries ==
    /\ req.op = "none"
    /\ \E type \in StorageTypes :
          req' = [NoReq EXCEPT !.op = "getAllEntries", !.type = type]
    /\ res' = NoRes
    /\ UNCHANGED <<page, activeTab, rt, notStorage>>

InvokeSetEntry ==
    /\ req.op = "none"
    /\ \E type \in StorageTypes, key \in Keys, value \in StorageValues :
          req' = [NoReq EXCEPT !.op = "setEntry", !.type = type, !.key = key,
                               !.value = value]
    /\ res' = NoRes
    /\ UNCHANGED <<page, activeTab, rt, notStorage>>

InvokeDeleteEntry ==
    /\ req.op = "none"
    /\ \E type \in StorageTypes, key \in Keys :
          req' = [NoReq EXCEPT !.op = "deleteEntry", !.type = type, !.key = key]
    /\ res' = NoRes
    /\ UNCHANGED <<page, activeTab, rt, notStorage>>

InvokeClearAll ==
    /\ req.op = "none"
    /\ \E type \in StorageTypes :
          req' = [NoReq EXCEPT !.op = "clearAll", !.type = type]
    /\ res' = NoRes
    /\ UNCHANGED <<page, activeTab, rt, notStorage>>

InvokeExportEntries ==
    /\ req.op = "none"
    /\ \E type \in StorageTypes :
          req' = [NoReq EXCEPT !.op = "exportEntries", !.type = type]
    /\ res' = NoRes
    /\ UNCHANGED <<page, activeTab, rt, notStorage>>

\* importEntries runs up to its first await when it is called: a text that
\* does not parse (or whose value has no entries to take) settles the call
\* at once; one with no entries resolves at once.
InvokeImportEntries ==
    /\ req.op = "none"
    /\ \E type \in StorageTypes, text \in ImportTexts :
          LET begun == ImportBegin(text)
              call == [NoReq EXCEPT !.op = "importEntries", !.type = type,
                                    !.text = text]
          IN  IF begun.threw
              THEN /\ req' = NoReq
                   /\ res' = ResultOf(call, Settled("rejected", ImportCatch("thrown"),
                                                    <<>>, 0, 0, page))
              ELSE IF begun.entries = <<>>
              THEN /\ req' = NoReq
                   /\ res' = ResultOf(call, Settled("resolved", "", <<>>, 0, 0, page))
              ELSE /\ req' = [call EXCEPT !.todo = begun.entries]
                   /\ res' = NoRes
    /\ UNCHANGED <<page, activeTab, rt, notStorage>>

SettleGetAllEntries ==
    /\ req.op = "getAllEntries"
    /\ \E injectOk \in BOOLEAN :
          LET s == GetAllEntries(page, req.type, activeTab, injectOk)
          IN  /\ res' = ResultOf(req, s)
              /\ page' = s.page
    /\ req' = NoReq
    /\ UNCHANGED <<activeTab, rt, notStorage>>

SettleSetEntry ==
    /\ req.op = "setEntry"
    /\ \E injectOk \in BOOLEAN :
          LET s == SetEntry(page, req.type, req.key, req.value, activeTab, injectOk)
          IN  /\ res' = ResultOf(req, s)
              /\ page' = s.page
    /\ req' = NoReq
    /\ UNCHANGED <<activeTab, rt, notStorage>>

SettleDeleteEntry ==
    /\ req.op = "deleteEntry"
    /\ \E injectOk \in BOOLEAN :
          LET s == DeleteEntry(page, req.type, req.key, activeTab, injectOk)
          IN  /\ res' = ResultOf(req, s)
              /\ page' = s.page
    /\ req' = NoReq
    /\ UNCHANGED <<activeTab, rt, notStorage>>

SettleClearAll ==
    /\ req.op = "clearAll"
    /\ \E injectOk \in BOOLEAN :
          LET s == ClearAll(page, req.type, activeTab, injectOk)
          IN  /\ res' = ResultOf(req, s)
              /\ page' = s.page
    /\ req' = NoReq
    /\ UNCHANGED <<activeTab, rt, notStorage>>

SettleExportEntries ==
    /\ req.op = "exportEntries"
    /\ \E injectOk \in BOOLEAN :
          LET s == ExportEntries(page, req.type, activeTab, injectOk)
          IN  /\ res' = ResultOf(req, s)
              /\ page' = s.page
    /\ req' = NoReq
    /\ UNCHANGED <<activeTab, rt, notStorage>>

\* One turn of importEntries' loop.  A setEntry that rejects ends the
\* import in the catch block; one that resolves lets the loop go on, and
\* the import resolves after the last entry.
ImportWrite ==
    /\ req.op = "importEntries"
    /\ req.todo # <<>>
    /\ \E injectOk \in BOOLEAN :
          LET s == ImportWriteEntry(page, req.type, Head(req.todo), activeTab, injectOk)
              n == req.calls + 1
              lost == s.outcome = "rejected" \/ s.failed > 0
              after == [req EXCEPT !.todo = Tail(@),
                                   !.calls = n,
                                   !.injected = @ + s.injected,
                                   !.failed = @ + s.failed,
                                   !.firstFail = IF @ = 0 /\ lost THEN n ELSE @]
              done == [op |-> after.op, type |-> after.type, text |-> after.text,
                       outcome |-> s.outcome,
                       error |-> IF s.outcome = "rejected" THEN ImportCatch(s.error) ELSE "",
                       value |-> <<>>, calls |-> after.calls, injected |-> after.injected,
                       failed |-> after.failed, firstFail |-> after.firstFail]
          IN  /\ page' = s.page
              /\ IF s.outcome = "rejected" \/ after.todo = <<>>
                 THEN req' = NoReq /\ res' = done
                 ELSE req' = after /\ res' = NoRes
    /\ UNCHANGED <<activeTab, rt, notStorage>>

NextStorage ==
    \/ TabChange
    \/ InvokeGetAllEntries
    \/ InvokeSetEntry
    \/ InvokeDeleteEntry
    \/ InvokeClearAll
    \/ InvokeExportEntries
    \/ InvokeImportEntries
    \/ SettleGetAllEntries
    \/ SettleSetEntry
    \/ SettleDeleteEntry
    \/ SettleClearAll
    \/ SettleExportEntries
    \/ ImportWrite

SpecStorage == InitStorage /\ [][NextStorage]_vars

(***************************************************************************)
(* The round trip: exportEntries(type), optionally clearAll(type), then    *)
(* importEntries(type, text) with the exported text, on a page with an     *)
(* active tab whose storage nothing else touches.                          *)
(***************************************************************************)

InitRoundTrip ==
    /\ page \in [StorageTypes -> Storages]
    /\ activeTab = TRUE
    /\ req = NoReq
    /\ res = NoRes
    /\ \E type \in StorageTypes :
          rt = [NoRoundTrip EXCEPT !.phase = "start", !.type = type,
                                   !.S = page[type]]
    /\ StoreOff /\ DashOff /\ AdapterOff

RoundTripExport ==
    /\ rt.phase = "start"
    /\ LET s == ExportEntries(page, rt.type, activeTab, TRUE)
       IN  /\ page' = s.page
           /\ rt' = [rt EXCEPT !.phase = "exported", !.text = s.value]
    /\ UNCHANGED <<activeTab, req, res, notStorage>>

RoundTripClearAll ==
    /\ rt.phase = "exported"
    /\ LET s == ClearAll(page, rt.type, activeTab, TRUE)
       IN  /\ page' = s.page
           /\ rt' = [rt EXCEPT !.phase = "cleared"]
    /\ UNCHANGED <<activeTab, req, res, notStorage>>

RoundTripImportBegin ==
    /\ rt.phase \in {"exported", "cleared"}
    /\ LET begun == ImportBegin(rt.text)
       IN  rt' = [rt EXCEPT !.phase = IF begun.threw THEN "failed"
                                      ELSE IF begun.entries = <<>> THEN "done"
                                      ELSE "importing",
                            !.todo = begun.entries]
    /\ UNCHANGED <<page, activeTab, req, res, notStorage>>

RoundTripImportWrite ==
    /\ rt.phase = "importing"
    /\ LET s == ImportWriteEntry(page, rt.type, Head(rt.todo), activeTab, TRUE)
       IN  /\ page' = s.page
           /\ rt' = [rt EXCEPT !.todo = Tail(@),
                               !.phase = IF s.outcome = "rejected" THEN "failed"
                                         ELSE IF Tail(rt.todo) = <<>> THEN "done"
                                         ELSE "importing"]
    /\ UNCHANGED <<activeTab, req, res, notStorage>>

NextRoundTrip ==
    \/ RoundTripExport
    \/ RoundTripClearAll
    \/ RoundTripImportBegin
    \/ RoundTripImportWrite

SpecRoundTrip == InitRoundTrip /\ [][NextRoundTrip]_vars

(***************************************************************************)
(* Properties of the storage service                                       *)
(***************************************************************************)

\* C1: after exportEntries(type) and importEntries(type, text) with the
\* exported text, with or without clearAll(type) in between, the storage
\* holds exactly the mapping S it held before the export.
RoundTripRestores == rt.phase = "done" => page[rt.type] = rt.S

\* C2: an importEntries whose text does not parse as JSON is rejected with
\* the invalid-format error, calls setEntry zero times, injects no script
\* and leaves the page's storages as they were.
ImportUnparseableWritesNothing ==
    [][ (res'.op = "importEntries" /\ ~ParseJSON(res'.text).ok)
        => /\ res'.outcome = "rejected"
           /\ res'.error = InvalidFormat
           /\ res'.calls = 0
           /\ res'.injected = 0
           /\ page' = page ]_vars

\* C2's case: importEntries was called with "{not json" and has been rejected.
ImportUnparseableWitness ==
    /\ res.op = "importEntries"
    /\ res.text = NotJsonText
    /\ res.outcome = "rejected"
    /\ res.error = InvalidFormat

\* C3: a call that settles while there is no active tab: setEntry,
\* deleteEntry and clearAll reject with "No active tab found", inject
\* nothing and leave the page's storages unchanged; getAllEntries resolves
\* with the empty list. getAllEntries never rejects.
NoTabRejectsWritesReadsEmpty ==
    [][ (req.op # "none" /\ req'.op = "none")
        => /\ (req.op \in WriteOps /\ ~activeTab)
                => /\ res'.outcome = "rejected"
                   /\ res'.error = NoActiveTab
                   /\ res'.injected = 0
                   /\ page' = page
           /\ (req.op = "getAllEntries" /\ ~activeTab)
                => /\ res'.value = <<>>
                   /\ res'.injected = 0
           /\ req.op = "getAllEntries" => res'.outcome = "resolved" ]_vars

\* C3's case: a write was rejected for want of a tab, over a storage that
\* holds entries.
NoTabWitness ==
    /\ ~activeTab
    /\ res.op \in WriteOps
    /\ res.outcome = "rejected"
    /\ res.error = NoActiveTab
    /\ page[res.type] # EmptyStorage

\* C4: an importEntries whose text is a well-formed JSON object and that is
\* rejected because a setEntry call failed is rejected with that call's
\* error, "No active tab found", not with the invalid-format error.
ImportReportsSetEntryFailure ==
    (/\ res.op = "importEntries"
     /\ ParseJSON(res.text).ok
     /\ ParseJSON(res.text).t = "obj"
     /\ res.outcome = "rejected")
    => res.error = NoActiveTab

\* C5: a setEntry, deleteEntry or clearAll whose script injection failed
\* is rejected.
InjectionFailureRejects ==
    (res.op \in WriteOps /\ res.failed > 0) => res.outcome = "rejected"

\* C7: importEntries stops at the first write that fails: no setEntry call
\* follows it and the caller gets a rejection.
ImportStopsAtFirstFailure ==
    /\ (req.op = "importEntries" => req.firstFail = 0)
    /\ (res.op = "importEntries" /\ res.firstFail > 0)
          => (res.outcome = "rejected" /\ res.calls = res.firstFail)

(***************************************************************************)
(* The persistent settings store, persistentStore(key, initialValue)       *)
(* (src/src/content/index.ts).  chrome.storage.sync is the remote store;   *)
(* it applies each context's set calls in the order they were made and     *)
(* sends onChanged to every context, the writer included, when a set       *)
(* changes a value.  Notifications reach the listener in the order they    *)
(* were made; nothing orders the initial get's result against them.        *)
(***************************************************************************)

\* export const count = persistentStore("count", 10)
InitialValue == 10

\* The store's values range over InitialValue .. InitialValue + ValueSpan.
ValueSpan == 1

StoreValues == InitialValue..(InitialValue + ValueSpan)

\* How many set / update calls this context makes.
MaxLocalWrites == 2

\* How many writes other contexts make.
MaxExternalWrites == 2

NoValue == [has |-> FALSE, v |-> InitialValue]

Stored(v) == [has |-> TRUE, v |-> v]

\* updateChromeStorage(value): chrome.storage.sync.set({[key]: value})
UpdateChromeStorage(queue, value) == Append(queue, value)

\* The listener: if the changes name the key, store.set(changes[key].newValue)
OnChanged(m, change) == IF change.hasKey THEN change.newValue ELSE m

\* The then-callback of the initial get: if the result has the key, store.set(result[key])
OnInitialRead(m, result) == IF result.has THEN result.v ELSE m

\* What a set of the key to v in the remote store sends to the listeners.
Changes(box, old, v, served) ==
    IF old = Stored(v) THEN box
    ELSE Append(box, [hasKey |-> TRUE, newValue |-> v, afterServe |-> served])

InitStore ==
    /\ mem = InitialValue
    /\ remote \in {NoValue} \cup {Stored(v) : v \in StoreValues}
    /\ writes = <<>>
    /\ inbox = <<>>
    /\ reading = "pending"
    /\ readResult = NoValue
    /\ issued = [local |-> 0, external |-> 0]
    /\ seenNewer = FALSE
    /\ lateRead = FALSE
    /\ StorageOff /\ DashOff /\ AdapterOff

\* set(value): store.set(value); updateChromeStorage(value)
StoreSet ==
    /\ issued.local < MaxLocalWrites
    /\ \E v \in StoreValues :
          /\ mem' = v
          /\ writes' = UpdateChromeStorage(writes, v)
    /\ issued' = [issued EXCEPT !.local = @ + 1]
    /\ UNCHANGED <<remote, inbox, reading, readResult, seenNewer, lateRead, notStore>>

\* update(updater), with the updater n => n + 1
StoreUpdate ==
    /\ issued.local < MaxLocalWrites
    /\ mem + 1 \in StoreValues
    /\ mem' = mem + 1
    /\ writes' = UpdateChromeStorage(writes, mem + 1)
    /\ issued' = [issued EXCEPT !.local = @ + 1]
    /\ UNCHANGED <<remote, inbox, reading, readResult, seenNewer, lateRead, notStore>>

\* The remote store applies this context's oldest pending set.
RemoteApply ==
    /\ writes # <<>>
    /\ remote' = Stored(Head(writes))
    /\ inbox' = Changes(inbox, remote, Head(writes), reading # "pending")
    /\ writes' = Tail(writes)
    /\ UNCHANGED <<mem, reading, readResult, issued, seenNewer, lateRead, notStore>>

\* Another context sets the key.
ExternalWrite ==
    /\ issued.external < MaxExternalWrites
    /\ \E v \in StoreValues :
          /\ remote' = Stored(v)
          /\ inbox' = Changes(inbox, remote, v, reading # "pending")
    /\ issued' = [issued EXCEPT !.external = @ + 1]
    /\ UNCHANGED <<mem, writes, reading, readResult, seenNewer, lateRead, notStore>>

\* Another context sets some other key: onChanged fires without this key.
ExternalWriteOtherKey ==
    /\ issued.external < MaxExternalWrites
    /\ inbox' = Append(inbox, [hasKey |-> FALSE, newValue |-> InitialValue,
                               afterServe |-> FALSE])
    /\ issued' = [issued EXCEPT !.external = @ + 1]
    /\ UNCHANGED <<mem, remote, writes, reading, readResult, seenNewer, lateRead, notStore>>

\* The remote store serves the initial get.
ReadServe ==
    /\ reading = "pending"
    /\ reading' = "served"
    /\ readResult' = remote
    /\ UNCHANGED <<mem, remote, writes, inbox, issued, seenNewer, lateRead, notStore>>

\* The get's promise resolves: the then-callback runs.
ReadDeliver ==
    /\ reading = "served"
    /\ reading' = "done"
    /\ mem' = OnInitialRead(mem, readResult)
    /\ lateRead' = seenNewer
    /\ UNCHANGED <<remote, writes, inbox, readResult, issued, seenNewer, notStore>>

\* The oldest notification reaches the listener.
NotifyDeliver ==
    /\ inbox # <<>>
    /\ mem' = OnChanged(mem, Head(inbox))
    /\ seenNewer' = (seenNewer \/ Head(inbox).afterServe)
    /\ inbox' = Tail(inbox)
    /\ UNCHANGED <<remote, writes, reading, readResult, issued, lateRead, notStore>>

NextStore ==
    \/ StoreSet
    \/ StoreUpdate
    \/ RemoteApply
    \/ ExternalWrite
    \/ ExternalWriteOtherKey
    \/ ReadServe
    \/ ReadDeliver
    \/ NotifyDeliver

SpecStore == InitStore /\ [][NextStore]_vars

\* Every set has been applied and every read result and notification delivered.
Quiescent == writes = <<>> /\ inbox = <<>> /\ reading = "done"

\* C6: once nothing is pending, the in-memory value equals the value the
\* remote store holds for the key.
StoreEqualsRemoteWhenQuiescent ==
    (Quiescent /\ remote.has) => mem = remote.v

\* The interleavings that keep the store consistent: those in which the
\* initial read's result is not delivered after a notification of a change
\* made after that read was served.
StoreEqualsRemoteUnlessLateRead ==
    (Quiescent /\ remote.has /\ ~lateRead) => mem = remote.v

\* Before any value was ever stored under the key, the in-memory value is
\* the initial value.
StoreKeepsInitialValueWithoutRemote ==
    (Quiescent /\ ~remote.has) => mem = InitialValue

(***************************************************************************)
(* The cookie dashboard (storage.service.ts, lines 149-320).  Strings are  *)
(* sequences of characters, so that toLowerCase, includes and < are        *)
(* computed.  A cookie is [name, value, domain, hasExpiry, expirationDate];*)
(* the effect reads no other field when the sort field is name or value,   *)
(* the two the table's headers set.                                        *)
(***************************************************************************)

\* The characters in use, in the order of their UTF-16 code units.
Alphabet == <<"A", "B", "a", "b", "l", "x", "y">>

CharCode(c) == CHOOSE i \in 1..Len(Alphabet) : Alphabet[i] = c

ToLowerChar(c) == IF c = "A" THEN "a" ELSE IF c = "B" THEN "b" ELSE c

\* s.toLowerCase()
ToLowerCase(s) == [i \in 1..Len(s) |-> ToLowerChar(s[i])]

\* s.includes(t)
Includes(s, t) ==
    \E i \in 0..(Len(s) - Len(t)) : SubSeq(s, i + 1, i + Len(t)) = t

\* a < b on strings: by code unit, a proper prefix first
StrLess(a, b) ==
    \E i \in 1..(Len(b)) :
        /\ \A j \in 1..(i - 1) : j <= Len(a) /\ a[j] = b[j]
        /\ i - 1 <= Len(a)
        /\ (i > Len(a) \/ CharCode(a[i]) < CharCode(b[i]))

All == <<"a", "l", "l">>

Cookie(name, value, domain, hasExpiry, expirationDate) ==
    [name |-> name, value |-> value, domain |-> domain,
     hasExpiry |-> hasExpiry, expirationDate |-> expirationDate]

\* The cookies chrome.cookies.getAll may return.
CookiePalette ==
    << Cookie(<<"a", "b">>, <<"B">>, <<"x">>, FALSE, 0),
       Cookie(<<"A", "b">>, <<"a">>, <<"y">>, TRUE, 1),
       Cookie(<<"b">>, <<"a">>, <<"x">>, TRUE, 0),
       Cookie(<<"b">>, <<"b", "A">>, <<"y">>, TRUE, 2) >>

\* The longest cookie list a fetch returns.
MaxCookies == 2

\* The latest clock reading, in seconds.
MaxNow == 2

CookieLists ==
    {q \in UNION {[1..n -> 1..Len(CookiePalette)] : n \in 0..MaxCookies} :
        \A i, j \in 1..Len(q) : i # j => q[i] # q[j]}

ListOf(q) == [i \in 1..Len(q) |-> CookiePalette[q[i]]]

SearchTerms == {<<>>, <<"a">>, <<"B">>}

DomainChoices == {All, <<"x">>, <<"y">>}

SortFields == {"name", "value"}

\* The search stage's test (lines 188-192)
MatchesSearch(c, term) ==
    \/ Includes(ToLowerCase(c.name), ToLowerCase(term))
    \/ Includes(ToLowerCase(c.value), ToLowerCase(term))
    \/ Includes(ToLowerCase(c.domain), ToLowerCase(term))

\* The expired stage's test: cookie.expirationDate && cookie.expirationDate < now.
\* An expirationDate of 0 is falsy, as a missing one is.
IsExpired(c, t) ==
    c.hasExpiry /\ c.expirationDate # 0 /\ c.expirationDate < t

SearchStage(list, term) ==
    IF term # <<>> THEN SelectSeq(list, LAMBDA c : MatchesSearch(c, term)) ELSE list

DomainStage(list, domain) ==
    IF domain # All THEN SelectSeq(list, LAMBDA c : c.domain = domain) ELSE list

ExpiredStage(list, expiredOnly, t) ==
    IF expiredOnly THEN SelectSeq(list, LAMBDA c : IsExpired(c, t)) ELSE list

Compare_IgnoresDirection(a, b, field, direction) ==
    IF StrLess(a[field], b[field]) THEN -1
    ELSE IF StrLess(b[field], a[field]) THEN 1
    ELSE 0

\* The sort comparator (lines 209-218)
Compare(a, b, field, direction) ==
    LET comparison == IF StrLess(a[field], b[field]) THEN -1
                      ELSE IF StrLess(b[field], a[field]) THEN 1
                      ELSE 0
    IN  IF direction = "desc" THEN -comparison ELSE comparison

\* Array.prototype.sort is stable: x goes behind every element that does
\* not compare greater than it.
RECURSIVE InsertCookie(_, _, _, _)
InsertCookie(sorted, x, field, direction) ==
    IF sorted = <<>> THEN <<x>>
    ELSE IF Compare(Head(sorted), x, field, direction) <= 0
    THEN <<Head(sorted)>> \o InsertCookie(Tail(sorted), x, field, direction)
    ELSE <<x>> \o sorted

RECURSIVE SortFrom(_, _, _, _)
SortFrom(rest, sorted, field, direction) ==
    IF rest = <<>> THEN sorted
    ELSE SortFrom(Tail(rest), InsertCookie(sorted, Head(rest), field, direction),
                  field, direction)

\* list.sort(comparator)
SortCookies(list, field, direction) == SortFrom(list, <<>>, field, direction)

\* The filter-and-sort function: the three stages in order, then the sort.
FilterAndSort(list, term, domain, expiredOnly, field, direction, t) ==
    SortCookies(ExpiredStage(DomainStage(SearchStage(list, term), domain), expiredOnly, t),
                field, direction)

Effect_WithoutDomainStage(list, term, domain, expiredOnly, field, direction, t) ==
    LET sorted == SortCookies(ExpiredStage(SearchStage(list, term), expiredOnly, t),
                              field, direction)
    IN  [cookies |-> list, filteredCookies |-> sorted]

\* One run of the effect.  filtered starts as the cookies array itself and
\* is replaced by a new array by each stage that runs; sort() sorts in
\* place, so with no stage run it sorts the cookies array, which
\* filteredCookies then shares.
Effect(list, term, domain, expiredOnly, field, direction, t) ==
    LET afterSearch == IF term # <<>>
                       THEN SelectSeq(list, LAMBDA c : MatchesSearch(c, term))
                       ELSE list
        afterDomain == IF domain # All
                       THEN SelectSeq(afterSearch, LAMBDA c : c.domain = domain)
                       ELSE afterSearch
        afterExpired == IF expiredOnly
                        THEN SelectSeq(afterDomain, LAMBDA c : IsExpired(c, t))
                        ELSE afterDomain
        sameArray == term = <<>> /\ domain = All /\ ~expiredOnly
        sorted == SortCookies(afterExpired, field, direction)
    IN  [cookies |-> IF sameArray THEN sorted ELSE list, filteredCookies |-> sorted]

\* The clock readings an update cycle may take: time does not run backwards.
Clock == {t \in {now, now + 1} : t <= MaxNow}

\* The state after the component is mounted and the effect has run once.
InitDash ==
    /\ cookies = <<>>
    /\ filteredCookies = <<>>
    /\ loading = FALSE
    /\ searchTerm = <<>>
    /\ selectedDomain = All
    /\ showExpiredOnly = FALSE
    /\ sortField = "name"
    /\ sortDirection = "asc"
    /\ now = 1
    /\ StorageOff /\ StoreOff /\ AdapterOff

\* fetchCookies up to its await
FetchStart ==
    /\ ~loading
    /\ loading' = TRUE
    /\ UNCHANGED <<cookies, filteredCookies, searchTerm, selectedDomain,
                   showExpiredOnly, sortField, sortDirection, now, notDash>>

\* chrome.cookies.getAll resolves: cookies = allCookies, and the effect runs.
FetchDone ==
    /\ loading
    /\ \E q \in CookieLists, t \in Clock :
          LET e == Effect(ListOf(q), searchTerm, selectedDomain, showExpiredOnly,
                          sortField, sortDirection, t)
          IN  /\ cookies' = e.cookies
              /\ filteredCookies' = e.filteredCookies
              /\ now' = t
    /\ loading' = FALSE
    /\ UNCHANGED <<searchTerm, selectedDomain, showExpiredOnly, sortField,
                   sortDirection, notDash>>

\* chrome.cookies.getAll rejects: the error is logged, cookies is kept.
FetchFail ==
    /\ loading
    /\ loading' = FALSE
    /\ UNCHANGED <<cookies, filteredCookies, searchTerm, selectedDomain,
                   showExpiredOnly, sortField, sortDirection, now, notDash>>

\* bind:value={searchTerm}
SetSearchTerm ==
    /\ \E term \in SearchTerms \ {searchTerm}, t \in Clock :
          LET e == Effect(cookies, term, selectedDomain, showExpiredOnly,
                          sortField, sortDirection, t)
          IN  /\ searchTerm' = term
              /\ cookies' = e.cookies
              /\ filteredCookies' = e.filteredCookies
              /\ now' = t
    /\ UNCHANGED <<loading, selectedDomain, showExpiredOnly, sortField,
                   sortDirection, notDash>>

\* bind:value={selectedDomain}
SelectDomain ==
    /\ \E domain \in DomainChoices \ {selectedDomain}, t \in Clock :
          LET e == Effect(cookies, searchTerm, domain, showExpiredOnly,
                          sortField, sortDirection, t)
          IN  /\ selectedDomain' = domain
              /\ cookies' = e.cookies
              /\ filteredCookies' = e.filteredCookies
              /\ now' = t
    /\ UNCHANGED <<loading, searchTerm, showExpiredOnly, sortField,
                   sortDirection, notDash>>

\* bind:checked={showExpiredOnly}
ToggleExpiredOnly ==
    /\ \E t \in Clock :
          LET e == Effect(cookies, searchTerm, selectedDomain, ~showExpiredOnly,
                          sortField, sortDirection, t)
          IN  /\ showExpiredOnly' = ~showExpiredOnly
              /\ cookies' = e.cookies
              /\ filteredCookies' = e.filteredCookies
              /\ now' = t
    /\ UNCHANGED <<loading, searchTerm, selectedDomain, sortField,
                   sortDirection, notDash>>

\* setSortField(field): the same field flips the direction, another field
\* is taken ascending.
SetSortField ==
    /\ \E field \in SortFields, t \in Clock :
          LET direction == IF sortField = field
                           THEN (IF sortDirection = "asc" THEN "desc" ELSE "asc")
                           ELSE "asc"
              e == Effect(cookies, searchTerm, selectedDomain, showExpiredOnly,
                          field, direction, t)
          IN  /\ sortField' = field
              /\ sortDirection' = direction
              /\ cookies' = e.cookies
              /\ filteredCookies' = e.filteredCookies
              /\ now' = t
    /\ UNCHANGED <<loading, searchTerm, selectedDomain, showExpiredOnly, notDash>>

NextDash ==
    \/ FetchStart
    \/ FetchDone
    \/ FetchFail
    \/ SetSearchTerm
    \/ SelectDomain
    \/ ToggleExpiredOnly
    \/ SetSortField

SpecDash == InitDash /\ [][NextDash]_vars

(***************************************************************************)
(* Properties of the dashboard                                             *)
(***************************************************************************)

Range(list) == {list[i] : i \in 1..Len(list)}

Reverse(list) == [i \in 1..Len(list) |-> list[Len(list) + 1 - i]]

NoTies(list, field) ==
    \A i, j \in 1..Len(list) : i # j => list[i][field] # list[j][field]

\* C8: after every update cycle the list shown is the filter-and-sort
\* function of the current full cookie list and the current search term,
\* domain, expired-only toggle, sort field and sort direction (at the
\* cycle's clock reading).
FilteredIsFunctionOfInputs ==
    filteredCookies = FilterAndSort(cookies, searchTerm, selectedDomain,
                                    showExpiredOnly, sortField, sortDirection, now)

\* C8's case: after fetches and input changes, with every input away from
\* its default, the list shown holds some cookies and leaves some out.
FilteredWitness ==
    /\ searchTerm # <<>>
    /\ selectedDomain # All
    /\ sortDirection = "desc"
    /\ sortField = "value"
    /\ Len(filteredCookies) > 0
    /\ Len(filteredCookies) < Len(cookies)

\* What C9 says a cookie must pass: each enabled stage, the expired stage
\* being "has an expiration timestamp, strictly less than now".
PassesStages(c) ==
    /\ searchTerm # <<>> =>
          \/ Includes(ToLowerCase(c.name), ToLowerCase(searchTerm))
          \/ Includes(ToLowerCase(c.value), ToLowerCase(searchTerm))
          \/ Includes(ToLowerCase(c.domain), ToLowerCase(searchTerm))
    /\ selectedDomain # All => c.domain = selectedDomain
    /\ showExpiredOnly => (c.hasExpiry /\ c.expirationDate < now)

\* C9: the list shown holds exactly the cookies of the full list that pass
\* every enabled stage.
FilteredHoldsExactlyThePassing ==
    /\ Range(filteredCookies) = {c \in Range(cookies) : PassesStages(c)}
    /\ Len(filteredCookies) = Cardinality(Range(filteredCookies))

\* C10: toggling the direction on the same sort field, at the same clock
\* reading, with no two listed cookies tied on that field, shows exactly
\* the reverse of the list shown before.
DescendingIsReverseOfAscending ==
    [][ (/\ sortField' = sortField
         /\ sortDirection' # sortDirection
         /\ now' = now
         /\ NoTies(filteredCookies, sortField))
        => filteredCookies' = Reverse(filteredCookies) ]_vars

\* C10's case: a list of at least two cookies without ties, shown descending.
DescendingWitness ==
    /\ sortDirection = "desc"
    /\ Len(filteredCookies) >= 2
    /\ NoTies(filteredCookies, sortField)
    /\ filteredCookies # Reverse(filteredCookies)

(***************************************************************************)
(* The cookie adapter (src/src/adapters/cookies.ts).  The jar is the      *)
(* browser's cookie store; api.remove either removes the cookie and        *)
(* resolves, or rejects; get() and has() read the jar through api.getAll.  *)
(***************************************************************************)

JarCookie(name, domain, value) == [name |-> name, domain |-> domain, value |-> value]

\* The cookies the browser may hold.
JarPalette ==
    << JarCookie("sid", "x.com", "1"),
       JarCookie("sid", "y.com", ""),
       JarCookie("theme", "x.com", "dark"),
       JarCookie("lang", "y.com", "en"),
       JarCookie("theme", "y.com", "") >>

\* How many of JarPalette's cookies the jar may hold.
NumJarCookies == 4

JarUniverse == {JarPalette[i] : i \in 1..NumJarCookies}

\* The orders in which api.getAll({}) may list the jar.
Listings(cs) ==
    {q \in [1..Cardinality(cs) -> cs] : \A i, j \in 1..Cardinality(cs) : i # j => q[i] # q[j]}

NotClearing == [phase |-> "idle", todo |-> <<>>, removed |-> <<>>]

\* The names and domains get() and has() are called with.
LookupNames == {JarPalette[i].name : i \in 1..Len(JarPalette)}
LookupDomains == {JarPalette[i].domain : i \in 1..Len(JarPalette)}

\* The cookies api.getAll({ domain }) lists: those of the jar on that domain
\* (no domain of JarPalette is a subdomain of another).
GetAll(cs, domain) == {c \in cs : c.domain = domain}

\* A string | undefined value of the program.
Undefined == [defined |-> FALSE, value |-> ""]
Defined(value) == [defined |-> TRUE, value |-> value]

\* cookies.find((c) => c.name === name)?.value
FindValue(list, name) ==
    LET hits == {i \in 1..Len(list) : list[i].name = name}
    IN  IF hits = {} THEN Undefined
        ELSE Defined(list[CHOOSE i \in hits : \A j \in hits : i <= j].value)

\* !!v for a string | undefined: undefined and the empty string are falsy.
ToBoolean(v) == v.defined /\ v.value # ""

\* get(name, domain), given what api.getAll({ domain }) listed.
Get(list, name) == FindValue(list, name)

\* has(name, domain): !!(await this.get(name, domain))
Has(list, name) == ToBoolean(Get(list, name))

NoLookup == [op |-> "none", name |-> "", domain |-> "", listed |-> <<>>,
             value |-> Undefined, result |-> FALSE]

InitAdapter ==
    /\ jar \in SUBSET JarUniverse
    /\ clearing = NotClearing
    /\ lookup = NoLookup
    /\ StorageOff /\ StoreOff /\ DashOff

\* set(name, value, options): api.set stores the cookie, replacing the one
\* of the same name and domain.
AdapterSet ==
    /\ clearing.phase # "removing"
    /\ \E c \in JarUniverse :
          jar' = {o \in jar : ~(o.name = c.name /\ o.domain = c.domain)} \cup {c}
    /\ clearing' = NotClearing
    /\ lookup' = NoLookup
    /\ UNCHANGED notAdapter

\* clear() up to its loop: const cookies = await this.api.getAll({})
ClearBegin ==
    /\ clearing.phase # "removing"
    /\ \E q \in Listings(jar) :
          clearing' = [phase |-> IF q = <<>> THEN "resolved" ELSE "removing",
                       todo |-> q, removed |-> <<>>]
    /\ lookup' = NoLookup
    /\ UNCHANGED <<jar, notAdapter>>

\* One turn of clear()'s loop: await this.api.remove({ name, url })
ClearRemove ==
    /\ clearing.phase = "removing"
    /\ \E ok \in BOOLEAN :
          IF ok
          THEN /\ jar' = jar \ {Head(clearing.todo)}
               /\ clearing' = [phase |-> IF Tail(clearing.todo) = <<>>
                                         THEN "resolved" ELSE "removing",
                               todo |-> Tail(clearing.todo),
                               removed |-> Append(clearing.removed, Head(clearing.todo))]
          ELSE /\ jar' = jar
               /\ clearing' = [clearing EXCEPT !.phase = "rejected"]
    /\ UNCHANGED <<lookup, notAdapter>>

\* get(name, domain), called when no clear() is in flight.
AdapterGet ==
    /\ clearing.phase # "removing"
    /\ clearing' = NotClearing
    /\ \E name \in LookupNames, domain \in LookupDomains :
          \E q \in Listings(GetAll(jar, domain)) :
             lookup' = [op |-> "get", name |-> name, domain |-> domain, listed |-> q,
                        value |-> Get(q, name), result |-> FALSE]
    /\ UNCHANGED <<jar, notAdapter>>

\* has(name, domain), called when no clear() is in flight.
AdapterHas ==
    /\ clearing.phase # "removing"
    /\ clearing' = NotClearing
    /\ \E name \in LookupNames, domain \in LookupDomains :
          \E q \in Listings(GetAll(jar, domain)) :
             lookup' = [op |-> "has", name |-> name, domain |-> domain, listed |-> q,
                        value |-> Get(q, name), result |-> Has(q, name)]
    /\ UNCHANGED <<jar, notAdapter>>

NextAdapter ==
    \/ AdapterSet
    \/ ClearBegin
    \/ ClearRemove
    \/ AdapterGet
    \/ AdapterHas

SpecAdapter == InitAdapter /\ [][NextAdapter]_vars

\* clear() stops at the first remove that rejects: the cookies removed
\* before it stay removed, the one that failed and those after it are
\* still in the jar, and the caller gets the rejection.
ClearStopsAtFirstFailure ==
    clearing.phase = "rejected"
    => /\ clearing.todo # <<>>
       /\ \A i \in 1..Len(clearing.todo) : clearing.todo[i] \in jar
       /\ \A i \in 1..Len(clearing.removed) : clearing.removed[i] \notin jar

\* The cookie list the latest lookup was answered from holds a cookie of
\* the name asked for.
Listed == \E i \in 1..Len(lookup.listed) : lookup.listed[i].name = lookup.name

\* C11: has(name, domain) resolves to true exactly when the browser's cookie
\* list for that domain holds a cookie of that name, that is exactly when
\* get(name, domain) returns a defined value, the empty string included.
HasIffCookieListed ==
    lookup.op = "has" => /\ lookup.result = Listed
                         /\ lookup.result = lookup.value.defined

\* The same for the cookies whose value is not the empty string.
HasIffCookieListedNonEmpty ==
    (lookup.op = "has" /\ lookup.value # Defined(""))
    => /\ lookup.result = Listed
       /\ lookup.result = lookup.value.defined

\* get(name, domain) returns a defined value exactly when the cookie is listed.
GetDefinedIffCookieListed ==
    lookup.op # "none" => (lookup.value.defined = Listed)
====
